---- MODULE Spec2Model ----
(***************************************************************************)
(* A model of onmt/Models.py: the fertility-bounded decoding loop of       *)
(* Decoder.forward, its caller NMTModel.forward, and the beam operations   *)
(* of the decoder-state family.                                            *)
(*                                                                         *)
(* Tensors are modelled by their bookkeeping content.  A (batch x src_len) *)
(* tensor is a tuple of rows, each row a tuple of integers; the empty      *)
(* tuple stands for Python's None.  Budget tensors live in a heap and are  *)
(* named by references (0 is None), because the code updates them in place *)
(* and several names can hold the same tensor.  Attention weights are      *)
(* whole units: a row of attention puts weight 1 on one source position.   *)
(***************************************************************************)
EXTENDS Integers, Sequences, FiniteSets, TLC

VARIABLES opt, call, pc, raised, i, heap, upper_bounds, coverage, outputs,
          attns, ret, bstate, blast

dvars == <<opt, call, pc, raised, i, heap, upper_bounds, coverage, outputs, attns, ret>>
bvars == <<bstate, blast>>
vars == <<dvars, bvars>>

(* ------------------------------ bounds --------------------------------- *)
MaxTgtLen == 3
MaxSrcLen == 2
MaxBeam == 2
MaxRows == 4
HiddenSizes == {1, 2}
BatchSizes == {1, 2}
Fertilities == {1, 2}

(* --------------------------- program constants -------------------------- *)
Sentinel == 100

None == <<>>

(* ------------------------------ tensors --------------------------------- *)
\* torch.Tensor([v]).repeat(n, s): an n x s tensor filled with v
Fill(n, s, v) == [b \in 1..n |-> [j \in 1..s |-> v]]

\* upper_bounds[:, 0] = 100 : the slip of resetting the first column
ResetFirstColumn(ub) == [b \in DOMAIN ub |-> [ub[b] EXCEPT ![1] = Sentinel]]

\* upper_bounds[:, -1] = 100. * ones(upper_bounds.size(0)), in place
ResetSink(ub) == [b \in DOMAIN ub |-> [ub[b] EXCEPT ![Len(ub[b])] = Sentinel]]

\* upper_bounds += attn : the sign slip
AddInPlace(ub, attn) == [b \in DOMAIN ub |-> [j \in DOMAIN ub[b] |-> ub[b][j] + attn[b][j]]]

\* upper_bounds -= attn
SubInPlace(ub, attn) == [b \in DOMAIN ub |-> [j \in DOMAIN ub[b] |-> ub[b][j] - attn[b][j]]]

\* coverage + attn
Plus(c, attn) == [b \in DOMAIN c |-> [j \in DOMAIN c[b] |-> c[b][j] + attn[b][j]]]

numel(t) == IF t = None THEN 0 ELSE Len(t) * Len(t[1])

\* one attention row: a distribution over the s source positions
AttnRows(s) == {[j \in 1..s |-> IF j = p THEN 1 ELSE 0] : p \in 1..s}

\* self.attn(rnn_output, context, upper_bounds): any (batch x src_len) attention
GlobalAttention(n, s) == [1..n -> AttnRows(s)]

\* aeq(*args): assert that all arguments are equal
aeq(args) == \A k \in DOMAIN args : args[k] = args[1]

\* what `if coverage` can evaluate to.  None is false.  The truth value of a
\* tensor depends on the tensor runtime: it is taken from the length, raises
\* "bool value of non-empty Variable is ambiguous", or (one element only) is
\* the truth value of the element.
Truth(t) ==
  IF t = None THEN {"false"}
  ELSE {"true", "raise"} \cup
       (IF numel(t) = 1 /\ t[1][1] = 0 THEN {"false"} ELSE {})

(* ------------------------- Decoder.forward ------------------------------ *)
\* attns = {"std": []} plus one key per enabled mechanism, "copy" forgotten
InitAttnsNoCopy(o) ==
  [k \in {"std"} \cup (IF o.coverage_attn THEN {"coverage"} ELSE {})
                 \cup (IF o.exhaustion_loss THEN {"upper_bounds"} ELSE {}) |-> <<>>]

\* attns = {"std": []} plus one key per enabled mechanism
InitAttns(o) ==
  [k \in {"std"} \cup (IF o.copy_attn THEN {"copy"} ELSE {})
                 \cup (IF o.coverage_attn THEN {"coverage"} ELSE {})
                 \cup (IF o.exhaustion_loss THEN {"upper_bounds"} ELSE {}) |-> <<>>]

\* attns[key] += [val] under the switch `on`
Record(a, key, on, val) ==
  IF on /\ key \in DOMAIN a THEN [a EXCEPT ![key] = Append(@, val)] ELSE a

\* the parameter upper_bounds falls back on the state's budget: the slip of
\* resuming from state.attn_upper_bounds
BoundUpperBoundsFromState(c) ==
  IF c.upper_bounds = 0 /\ c.state.kind = "RNNDecoderState"
  THEN c.state.attn_upper_bounds ELSE c.upper_bounds

\* the parameter upper_bounds=None of forward: the argument, nothing else
BoundUpperBounds(c) == c.upper_bounds

\* the entry checks without the check of the state's input feed
ChecksPassNoFeed(c) ==
  /\ aeq(<<c.n_batch, c.src_batch, c.ctx_batch>>)
  /\ c.state.kind = "RNNDecoderState"

\* the entry checks: aeq(n_batch, n_batch_, n_batch__), isinstance(state,
\* RNNDecoderState), aeq(n_batch, batch of state.input_feed)
ChecksPass(c) ==
  /\ aeq(<<c.n_batch, c.src_batch, c.ctx_batch>>)
  /\ c.state.kind = "RNNDecoderState"
  /\ aeq(<<c.n_batch, c.state.input_feed>>)

\* tgt[1:] : the slip of dropping the first token
DropFirst(tgt) == SubSeq(tgt, 2, Len(tgt))

\* tgt[:-1]
DropLast(tgt) == SubSeq(tgt, 1, Len(tgt) - 1)

\* torch.stack of a list of budget references: the values they hold now
Stack(a, h) ==
  [k \in DOMAIN a |->
     IF k = "upper_bounds" THEN [m \in DOMAIN a[k] |-> h[a[k][m]]] ELSE a[k]]

Tokens(n) == [k \in 1..n |-> k]

OneHot(s, p) == [j \in 1..s |-> IF j = p THEN 1 ELSE 0]

\* the attention of the one step of an earlier call, weight on position p
PriorAttn(n, s, p) == [b \in 1..n |-> OneHot(s, p)]

\* the budget an earlier one-step call returned
PriorBudget(n, s, f, p) == SubInPlace(ResetSink(Fill(n, s, f)), PriorAttn(n, s, p))

NoCall ==
  [caller |-> "", tgt |-> <<>>, input |-> <<>>, n_batch |-> 0, src_batch |-> 0,
   ctx_batch |-> 0, s_len_ |-> 0, state |-> [kind |-> ""], upper_bounds |-> 0,
   prior |-> 0, prior_batch |-> 0]

NoRet == [returned |-> FALSE]

\* RNNDecoderState(rnnstate, input_feed, coverage, attn_upper_bounds); the
\* input feed is kept by its batch size
RNNDecoderState(feed, cov, ub) ==
  [kind |-> "RNNDecoderState", input_feed |-> feed, coverage |-> cov,
   attn_upper_bounds |-> ub]

TransformerDecoderState == [kind |-> "TransformerDecoderState"]

\* the state an earlier one-step call of this decoder returned
CarriedState(n, s, p) ==
  RNNDecoderState(n, IF opt.coverage_attn THEN PriorAttn(n, s, p) ELSE None, 1)

NoBeam == [kind |-> ""]
\* no beam operation is running; tiled is the beam size of the repeatBeam_
\* that returned last, 0 when another operation came after it or none was made
Idle(tiled) == [op |-> "", tiled |-> tiled]
NoOp == Idle(0)

Init ==
  /\ opt \in [copy_attn : BOOLEAN, coverage_attn : BOOLEAN,
              exhaustion_loss : BOOLEAN, fertility : Fertilities]
  /\ call = NoCall
  /\ pc = "idle"
  /\ raised = ""
  /\ i = 0
  /\ heap = <<>>
  /\ upper_bounds = 0
  /\ coverage = None
  /\ outputs = <<>>
  /\ attns = <<>>
  /\ ret = NoRet
  /\ bstate = NoBeam
  /\ blast = NoOp

\* NMTModel.forward up to its call of the decoder: tgt[:-1], the encoder's
\* memory bank, the fresh state of init_decoder_state unless dec_state is given
NMTModel_forward ==
  /\ pc = "idle"
  /\ \E T \in 2..MaxTgtLen, s \in 1..MaxSrcLen, nb \in BatchSizes, sb \in BatchSizes,
        carried \in BOOLEAN :
       \E p \in IF carried THEN 1..s ELSE {0} :
         /\ call' = [caller |-> "NMTModel.forward", tgt |-> Tokens(T),
                     input |-> DropLast(Tokens(T)), n_batch |-> nb, src_batch |-> sb,
                     ctx_batch |-> sb, s_len_ |-> s,
                     state |-> IF carried THEN CarriedState(sb, s, p)
                               ELSE RNNDecoderState(sb, None, 0),
                     upper_bounds |-> 0, prior |-> p, prior_batch |-> sb]
         /\ heap' = IF carried THEN <<PriorBudget(sb, s, opt.fertility, p)>> ELSE <<>>
  /\ pc' = "entry"
  /\ UNCHANGED <<opt, raised, i, upper_bounds, coverage, outputs, attns, ret, bvars>>

\* a direct call of Decoder.forward, as the beam-search driver makes it
Decoder_call ==
  /\ pc = "idle"
  /\ \E t \in 1..(MaxTgtLen - 1), s \in 1..MaxSrcLen, nb \in BatchSizes, ob \in BatchSizes,
        odd \in {"none", "src", "context", "input_feed"},
        kind \in {"fresh", "carried", "transformer"}, pass \in BOOLEAN :
       \E p \in IF kind = "carried" \/ pass THEN 1..s ELSE {0} :
         /\ (odd = "none") = (ob = nb)
         /\ LET fb == IF odd = "input_feed" THEN ob ELSE nb IN
            /\ call' = [caller |-> "Decoder.forward", tgt |-> <<>>, input |-> Tokens(t),
                        n_batch |-> nb,
                        src_batch |-> IF odd = "src" THEN ob ELSE nb,
                        ctx_batch |-> IF odd = "context" THEN ob ELSE nb,
                        s_len_ |-> s,
                        state |-> CASE kind = "fresh" -> RNNDecoderState(fb, None, 0)
                                    [] kind = "carried" -> CarriedState(fb, s, p)
                                    [] OTHER -> TransformerDecoderState,
                        upper_bounds |-> IF pass THEN 1 ELSE 0, prior |-> p,
                        prior_batch |-> fb]
            /\ heap' = IF p > 0 THEN <<PriorBudget(fb, s, opt.fertility, p)>> ELSE <<>>
  /\ pc' = "entry"
  /\ UNCHANGED <<opt, raised, i, upper_bounds, coverage, outputs, attns, ret, bvars>>

\* Decoder.forward before its loop: the checks, the empty attention lists,
\* the incoming coverage
Entry ==
  /\ pc = "entry"
  /\ IF ChecksPass(call)
     THEN /\ pc' = "loop"
          /\ attns' = InitAttns(opt)
          /\ coverage' = call.state.coverage
          /\ upper_bounds' = BoundUpperBounds(call)
          /\ UNCHANGED raised
     ELSE /\ pc' = "failed"
          /\ raised' = "AssertionError"
          /\ UNCHANGED <<attns, coverage, upper_bounds>>
  /\ UNCHANGED <<opt, call, i, heap, outputs, ret, bvars>>

\* top of one iteration: the budget is created if there is none, and the sink
\* column is reset
LoopTop ==
  /\ pc = "loop"
  /\ i < Len(call.input)
  /\ IF upper_bounds = 0
     THEN /\ heap' = Append(heap, ResetSink(Fill(call.state.input_feed, call.s_len_,
                                                 opt.fertility)))
          /\ upper_bounds' = Len(heap) + 1
     ELSE /\ heap' = [heap EXCEPT ![upper_bounds] = ResetSink(@)]
          /\ UNCHANGED upper_bounds
  /\ pc' = "attend"
  /\ UNCHANGED <<opt, call, raised, i, coverage, outputs, attns, ret, bvars>>

\* rest of the iteration: the recurrent step on the i-th embedded token, the
\* attention, the decrement of the budget, the records of the step.  An output
\* is kept as the token whose embedding the step consumed, a copy attention
\* as the output that was its query.  When `if coverage` raises, the budget,
\* the outputs and attns["std"] of the step have been written already.
Attend ==
  /\ pc = "attend"
  /\ \E attn \in GlobalAttention(call.n_batch, call.s_len_), truth \in Truth(coverage) :
       LET a1 == Record(attns, "std", TRUE, attn)
           cov == IF truth = "true" THEN Plus(coverage, attn) ELSE attn
           a2 == Record(a1, "coverage", opt.coverage_attn, cov)
           a3 == Record(a2, "copy", opt.copy_attn, call.input[i + 1])
           a4 == Record(a3, "upper_bounds", opt.exhaustion_loss, upper_bounds)
       IN /\ heap' = [heap EXCEPT ![upper_bounds] = SubInPlace(@, attn)]
          /\ outputs' = Append(outputs, call.input[i + 1])
          /\ IF opt.coverage_attn /\ truth = "raise"
             THEN /\ attns' = a1
                  /\ pc' = "failed"
                  /\ raised' = "RuntimeError"
                  /\ UNCHANGED <<coverage, i>>
             ELSE /\ attns' = a4
                  /\ coverage' = IF opt.coverage_attn THEN cov ELSE coverage
                  /\ i' = i + 1
                  /\ pc' = "loop"
                  /\ UNCHANGED raised
  /\ UNCHANGED <<opt, call, upper_bounds, ret, bvars>>

\* after the loop: the new state, the stacked outputs and attention maps
Finish ==
  /\ pc = "loop"
  /\ i = Len(call.input)
  /\ ret' = [returned |-> TRUE, outputs |-> outputs,
             state |-> RNNDecoderState(call.n_batch, coverage, upper_bounds),
             attns |-> Stack(attns, heap), upper_bounds |-> upper_bounds]
  /\ pc' = "done"
  /\ UNCHANGED <<opt, call, raised, i, heap, upper_bounds, coverage, outputs, attns, bvars>>

Next == NMTModel_forward \/ Decoder_call \/ Entry \/ LoopTop \/ Attend \/ Finish

Spec == Init /\ [][Next]_vars

(* ------------------------- claims: the decoder -------------------------- *)
RECURSIVE SumAttn(_, _, _, _)
\* the attention weight batch element b put on position j in steps 1..k
SumAttn(std, k, b, j) == IF k = 0 THEN 0 ELSE std[k][b][j] + SumAttn(std, k - 1, b, j)

InLoop == pc \in {"loop", "attend", "done"} \/ raised = "RuntimeError"

Compatible ==
  /\ call.state.kind = "RNNDecoderState"
  /\ call.n_batch = call.src_batch
  /\ call.n_batch = call.ctx_batch
  /\ call.n_batch = call.state.input_feed

Batch == 1..call.n_batch
Sink == call.s_len_
NonSink == 1..(call.s_len_ - 1)

\* the budget the call started from at a non-sink position: the caller's
\* tensor as it was at the call, the configured fertility without one
Budget0(b, j) ==
  IF call.upper_bounds = 0 THEN opt.fertility
  ELSE PriorBudget(call.n_batch, call.s_len_, opt.fertility, call.prior)[b][j]

\* the heap as the caller built it
Heap0 ==
  IF call.prior > 0
  THEN <<PriorBudget(call.prior_batch, call.s_len_, opt.fertility, call.prior)>>
  ELSE <<>>

\* C1: whenever a step is about to compute its attention, the sink (last)
\* position of the budget holds the sentinel 100 for every batch element.
C1_SinkIsSentinel ==
  pc = "attend" =>
    /\ upper_bounds # 0
    /\ \A b \in Batch : heap[upper_bounds][b][Sink] = Sentinel

\* a later step of a call on a caller-supplied budget, after a step whose
\* attention went to the sink
C1_Witness ==
  /\ pc = "attend"
  /\ i >= 1
  /\ call.upper_bounds # 0
  /\ call.s_len_ > 1
  /\ \E b \in Batch : attns.std[i][b][Sink] = 1

\* C2: at every point of the loop the budget of a non-sink position is the
\* budget the call started from minus the attention the position received in
\* the steps made so far; so each step takes off exactly its own attention,
\* and without a caller's budget the budget is F minus the summed attention.
C2_BudgetIsStartMinusAttention ==
  (InLoop /\ upper_bounds # 0) =>
    \A b \in Batch : \A j \in NonSink :
      heap[upper_bounds][b][j] = Budget0(b, j) - SumAttn(attns.std, Len(attns.std), b, j)

\* two steps on one non-sink position without a caller's budget
C2_Witness ==
  /\ pc = "done"
  /\ call.upper_bounds = 0
  /\ Len(attns.std) = 2
  /\ \E b \in Batch : \E j \in NonSink :
       /\ SumAttn(attns.std, 2, b, j) = 2
       /\ heap[upper_bounds][b][j] = opt.fertility - 2

\* the budget right after the decrement of step m
AfterStep(m, b, j) ==
  IF j = Sink THEN Sentinel - attns.std[m][b][j]
  ELSE Budget0(b, j) - SumAttn(attns.std, m, b, j)

\* C3: with exhaustion-loss tracking, entry m of the returned "upper_bounds"
\* map is the budget as it was right after the decrement of step m.
C3_UpperBoundsPerStep ==
  (pc = "done" /\ opt.exhaustion_loss) =>
    \A m \in DOMAIN ret.attns.upper_bounds : \A b \in Batch : \A j \in 1..Sink :
      ret.attns.upper_bounds[m][b][j] = AfterStep(m, b, j)

\* C6: a call whose state is not the recurrent variant, or whose batch sizes
\* disagree, ends in the assertion failure before any step, with the heap of
\* budget tensors (the state's and the caller's) and the outputs untouched;
\* the loop is entered only by compatible calls.
C6_NoStepUnlessCompatible ==
  /\ InLoop => Compatible
  /\ (pc \notin {"idle", "entry"} /\ ~Compatible) =>
       /\ pc = "failed"
       /\ raised = "AssertionError"
       /\ i = 0
       /\ outputs = <<>>
       /\ heap = Heap0
       /\ upper_bounds = 0

\* a recurrent state whose input feed has another batch size, with a budget
\* supplied by the caller
C6_Witness ==
  /\ pc = "failed"
  /\ call.state.kind = "RNNDecoderState"
  /\ call.n_batch = call.src_batch
  /\ call.n_batch = call.ctx_batch
  /\ call.n_batch # call.state.input_feed
  /\ call.upper_bounds # 0

AttnKeys ==
  {"std"} \cup (IF opt.copy_attn THEN {"copy"} ELSE {})
          \cup (IF opt.coverage_attn THEN {"coverage"} ELSE {})
          \cup (IF opt.exhaustion_loss THEN {"upper_bounds"} ELSE {})

\* C7: the returned attention maps have the keys the switches select, and
\* every key has one entry per step, as many as the outputs.
C7_AttnKeysAndLengths ==
  pc = "done" =>
    /\ DOMAIN ret.attns = AttnKeys
    /\ Len(ret.outputs) = Len(call.input)
    /\ \A k \in DOMAIN ret.attns : Len(ret.attns[k]) = Len(ret.outputs)

\* two steps with copy attention and exhaustion loss, without coverage
C7_Witness ==
  /\ pc = "done"
  /\ opt.copy_attn /\ opt.exhaustion_loss /\ ~opt.coverage_attn
  /\ Len(ret.outputs) = 2

\* C8: a call through NMTModel.forward with a target of length T returns
\* after T-1 steps, which consumed the tokens 1..T-1 of the target in order.
C8_AllButLastToken ==
  (pc = "done" /\ call.caller = "NMTModel.forward") =>
    /\ i = Len(call.tgt) - 1
    /\ Len(ret.outputs) = Len(call.tgt) - 1
    /\ \A k \in 1..Len(ret.outputs) : ret.outputs[k] = call.tgt[k]

C8_Witness ==
  /\ pc = "done"
  /\ call.caller = "NMTModel.forward"
  /\ Len(call.tgt) = 3
  /\ Len(ret.outputs) = 2

\* the coverage the call started from
Coverage0(b, j) == IF call.state.coverage = None THEN 0 ELSE call.state.coverage[b][j]

\* C9: with coverage tracking a compatible call of any length runs through,
\* the coverage recorded at step m is the incoming coverage plus the attention
\* of steps 1..m, and the returned state holds the last record.
C9_CoverageRunningSum ==
  (opt.coverage_attn /\ pc \notin {"idle", "entry"} /\ Compatible) =>
    /\ raised = ""
    /\ \A m \in DOMAIN attns.coverage : \A b \in Batch : \A j \in 1..Sink :
         attns.coverage[m][b][j] = Coverage0(b, j) + SumAttn(attns.std, m, b, j)
    /\ pc = "done" =>
         /\ Len(attns.coverage) = Len(call.input)
         /\ ret.state.coverage = attns.coverage[Len(attns.coverage)]

\* C10: a call without the upper_bounds argument makes one fresh budget, which
\* at the first attention holds the configured fertility at every non-sink
\* position, and leaves the budget of the incoming state as it was; a call
\* with the argument works on the caller's tensor and makes none.
C10_StateBudgetNeverRead ==
  InLoop =>
    /\ call.upper_bounds # 0 =>
         /\ upper_bounds = call.upper_bounds
         /\ Len(heap) = Len(Heap0)
    /\ call.upper_bounds = 0 =>
         /\ upper_bounds = 0 => (pc = "loop" /\ i = 0 /\ heap = Heap0)
         /\ upper_bounds # 0 =>
              /\ upper_bounds = Len(Heap0) + 1
              /\ Len(heap) = Len(Heap0) + 1
              /\ \A r \in DOMAIN Heap0 : heap[r] = Heap0[r]
         /\ (pc = "attend" /\ i = 0) =>
              \A b \in Batch : \A j \in NonSink : heap[upper_bounds][b][j] = opt.fertility

\* the first attention of a call through NMTModel.forward that was handed the
\* state of an earlier call, whose budget is partly used
C10_Witness ==
  /\ pc = "attend"
  /\ i = 0
  /\ call.caller = "NMTModel.forward"
  /\ call.state.attn_upper_bounds # 0
  /\ \E b \in Batch : \E j \in NonSink :
       /\ heap[call.state.attn_upper_bounds][b][j] = opt.fertility - 1
       /\ heap[upper_bounds][b][j] = opt.fertility

(* ------------------------ the decoder-state family ---------------------- *)
(* A state tensor (X x batch x dim, the budget batch x dim) is kept as the  *)
(* tuple of its batch rows; a row is a label that tells its tensor and the  *)
(* layer and the batch index it was created at.                            *)
Rows(tag, l, n) == [j \in 1..n |-> <<tag, l, j>>]

\* self.all of a state
All(st) ==
  IF st.kind = "RNNDecoderState" THEN st.hidden \o <<st.input_feed>>
  ELSE <<st.previous_input>>

\* e.data.repeat(1, beamSize, 1): the batch tiled beamSize times
Repeat(e, beamSize) == [r \in 1..(Len(e) * beamSize) |-> e[((r - 1) % Len(e)) + 1]]

\* e.view(.., beamSize, br // beamSize, ..)[.., idx] exists: the batch splits
\* into beamSize groups and idx (from 1 here) is one of the sentences
ViewOK(e, idx, beamSize) ==
  /\ beamSize * (Len(e) \div beamSize) = Len(e)
  /\ idx <= Len(e) \div beamSize

\* the batch row of beam slot k of sentence idx in the viewed tensor e
Row(e, beamSize, k, idx) == (k - 1) * (Len(e) \div beamSize) + idx

\* the slip of copying into the slice of the first sentence
CopyIntoFirstSentence(e, idx, positions, beamSize) ==
  [r \in 1..Len(e) |->
     IF \E k \in 1..beamSize : r = Row(e, beamSize, k, 1)
     THEN LET k == CHOOSE k \in 1..beamSize : r = Row(e, beamSize, k, 1)
          IN e[Row(e, beamSize, positions[k], idx)]
     ELSE e[r]]

\* sentStates.data.copy_(sentStates.data.index_select(.., positions))
BeamCopy(e, idx, positions, beamSize) ==
  [r \in 1..Len(e) |->
     IF \E k \in 1..beamSize : r = Row(e, beamSize, k, idx)
     THEN LET k == CHOOSE k \in 1..beamSize : r = Row(e, beamSize, k, idx)
          IN e[Row(e, beamSize, positions[k], idx)]
     ELSE e[r]]

\* the decoder states a beam search starts from: the state of
\* init_decoder_state (no budget), the state Decoder.forward returns (with
\* the budget of its batch), the non-recurrent state
BeamStates ==
  {[kind |-> "RNNDecoderState", hidden |-> [l \in 1..h |-> Rows("hidden", l, n)],
    input_feed |-> Rows("input_feed", 0, n),
    attn_upper_bounds |-> IF ub THEN Rows("attn_upper_bounds", 0, n) ELSE None] :
     h \in HiddenSizes, n \in 1..MaxRows, ub \in BOOLEAN}
  \cup {[kind |-> "TransformerDecoderState", previous_input |-> Rows("previous_input", 0, n)] :
          n \in 1..MaxRows}

BeamInit ==
  /\ opt = [copy_attn |-> FALSE, coverage_attn |-> FALSE, exhaustion_loss |-> FALSE,
            fertility |-> 1]
  /\ call = NoCall
  /\ pc = "idle"
  /\ raised = ""
  /\ i = 0
  /\ heap = <<>>
  /\ upper_bounds = 0
  /\ coverage = None
  /\ outputs = <<>>
  /\ attns = <<>>
  /\ ret = NoRet
  /\ bstate \in BeamStates
  /\ blast = NoOp

\* the operation that has just run, with its arguments, whether it returned
\* (ok) or raised, and the beam size of a repeatBeam_ right before it
Op(name, idx, positions, beamSize, ok) ==
  [op |-> name, idx |-> idx, positions |-> positions, beamSize |-> beamSize, ok |-> ok,
   tiled |-> blast.tiled]

\* DecoderState.repeatBeam_ with RNNDecoderState._resetAll: hidden state and
\* input feed are tiled, the budget is not in self.all;
\* TransformerDecoderState.repeatBeam_ does nothing
repeatBeam_ ==
  /\ blast.op = ""
  /\ \E beamSize \in 1..MaxBeam :
       /\ \A t \in DOMAIN All(bstate) : Len(All(bstate)[t]) * beamSize <= MaxRows
       /\ bstate' =
            IF bstate.kind = "RNNDecoderState"
            THEN [bstate EXCEPT
                    !.hidden = [l \in DOMAIN bstate.hidden |-> Repeat(bstate.hidden[l], beamSize)],
                    !.input_feed = Repeat(bstate.input_feed, beamSize)]
            ELSE bstate
       /\ blast' = Op("repeatBeam_", 0, <<>>, beamSize, TRUE)
  /\ UNCHANGED dvars

\* DecoderState.beamUpdate_ over self.all, then (RNNDecoderState) over the
\* budget when there is one.  A view or index that does not exist raises: at
\* the first tensor of self.all nothing has been copied yet, at the budget
\* self.all has been reordered already.
beamUpdate_ ==
  /\ blast.op = ""
  /\ \E beamSize \in 1..MaxBeam, idx \in 1..MaxRows :
       \E positions \in [1..beamSize -> 1..beamSize] :
         LET all == All(bstate)
             allOK == \A t \in DOMAIN all : ViewOK(all[t], idx, beamSize)
             hasUB == bstate.kind = "RNNDecoderState" /\ bstate.attn_upper_bounds # None
             ubOK == ViewOK(bstate.attn_upper_bounds, idx, beamSize)
         IN /\ bstate' =
                 IF ~allOK THEN bstate
                 ELSE IF bstate.kind = "RNNDecoderState"
                 THEN [bstate EXCEPT
                         !.hidden = [l \in DOMAIN bstate.hidden |->
                                       BeamCopy(bstate.hidden[l], idx, positions, beamSize)],
                         !.input_feed = BeamCopy(bstate.input_feed, idx, positions, beamSize),
                         !.attn_upper_bounds =
                            IF hasUB /\ ubOK THEN BeamCopy(@, idx, positions, beamSize) ELSE @]
                 ELSE [bstate EXCEPT
                         !.previous_input = BeamCopy(@, idx, positions, beamSize)]
            /\ blast' = Op("beamUpdate_", idx, positions, beamSize,
                           allOK /\ (hasUB => ubOK))
  /\ UNCHANGED dvars

\* the operation hands control back to the beam-search driver
Return ==
  /\ blast.op # ""
  /\ blast' = Idle(IF blast.op = "repeatBeam_" THEN blast.beamSize ELSE 0)
  /\ UNCHANGED <<bstate, dvars>>

BeamNext == repeatBeam_ \/ beamUpdate_ \/ Return

SpecBeam == BeamInit /\ [][BeamNext]_vars

(* ----------------------- claims: the state family ----------------------- *)
\* the tensors a claim about the state speaks of: hidden states, input feed
\* (or the previous input), and the budget when there is one
Tensors(st) ==
  All(st) \o (IF st.kind = "RNNDecoderState" /\ st.attn_upper_bounds # None
              THEN <<st.attn_upper_bounds>> ELSE <<>>)

Identity(n) == [k \in 1..n |-> k]

\* C4: a beamUpdate_(idx, positions, beamSize) that returns leaves in every
\* tensor, at beam slot k of sentence idx, what slot positions[k] of that
\* sentence held before, and leaves the slots of all other sentences alone.
C4_BeamUpdateReorders ==
  [][(blast'.op = "beamUpdate_" /\ blast'.ok) =>
       /\ Len(Tensors(bstate')) = Len(Tensors(bstate))
       /\ \A t \in DOMAIN Tensors(bstate) :
            LET e == Tensors(bstate)[t]
                f == Tensors(bstate')[t]
                b == blast'.beamSize
            IN /\ Len(f) = Len(e)
               /\ \A k \in 1..b : \A s \in 1..(Len(e) \div b) :
                    f[Row(e, b, k, s)] =
                      IF s = blast'.idx THEN e[Row(e, b, blast'.positions[k], s)]
                      ELSE e[Row(e, b, k, s)]]_vars

\* a reordering of the second of two sentences that moved the second
\* hypothesis into the first slot, budget included
C4_Witness ==
  /\ blast.op = "beamUpdate_"
  /\ blast.ok
  /\ blast.beamSize = 2
  /\ blast.idx = 2
  /\ blast.positions = <<2, 1>>
  /\ bstate.kind = "RNNDecoderState"
  /\ Len(bstate.input_feed) = 4
  /\ bstate.attn_upper_bounds = <<<<"attn_upper_bounds", 0, 1>>, <<"attn_upper_bounds", 0, 4>>,
                                  <<"attn_upper_bounds", 0, 3>>, <<"attn_upper_bounds", 0, 2>>>>

\* C5: beamUpdate_ with the identity permutation right after
\* repeatBeam_(beamSize), for any sentence index, leaves every tensor of the
\* state as repeatBeam_ left it.
C5_IdentityAfterRepeat ==
  [][(/\ blast'.op = "beamUpdate_"
      /\ blast'.tiled = blast'.beamSize
      /\ blast'.positions = Identity(blast'.beamSize)) =>
       Tensors(bstate') = Tensors(bstate)]_vars

\* the identity reordering of the second of two sentences, right after the
\* state was tiled for a beam of two
C5_Witness ==
  /\ blast.op = "beamUpdate_"
  /\ blast.ok
  /\ blast.tiled = 2
  /\ blast.beamSize = 2
  /\ blast.idx = 2
  /\ blast.positions = <<1, 2>>
  /\ bstate.kind = "RNNDecoderState"
  /\ bstate.input_feed = <<<<"input_feed", 0, 1>>, <<"input_feed", 0, 2>>,
                           <<"input_feed", 0, 1>>, <<"input_feed", 0, 2>>>>

====
